---------------------------- MODULE Spec2Model ----------------------------
(* Model of scripts/fetch-ukpacket-nodes.py: the Channel Extractor, the   *)
(* Item Builder, the Catalog Emitter and the generation run (main).       *)
(* Text is a sequence of one-character strings; regular expressions are   *)
(* computed position by position, as Python's re module matches them.     *)
EXTENDS Integers, Sequences, FiniteSets, TLC

VARIABLES
  text,    \* Channel Extractor: the description text given to _extract_channels
  ntok,    \* Channel Extractor: tokens the text was put together from
  chans,   \* Channel Extractor: the list _extract_channels returned
  cpc,     \* Channel Extractor: "input" before the call, "done" after
  points,  \* Item Builder: the points given to _build_items
  bi,      \* Item Builder: the point the first loop is at (1-based)
  items,   \* Item Builder: the local list `items` of the first loop
  built,   \* Item Builder: the list _build_items returned
  bpc,     \* Item Builder: "input", "loop", "done" (returned) or "raised"
  outFile, \* OUT_FILE: the text of the catalog output file (<<>>: no file)
  ecat,    \* Catalog Emitter: the items the next call will be given
  written, \* Catalog Emitter: the items the last call was given
  runs,    \* Catalog Emitter: calls of _write_packet_data_js so far
  mpc,     \* main: "start", "probe" (in the loop), "build" (after it), "exit"
  nurls,   \* main: len(urls)
  ui,      \* main: the candidate the loop is at (1-based)
  fetched, \* main: the calls of _http_get_json so far, with what they gave
  all_points, \* main: the local list `all_points`
  wrote,   \* main: whether _write_packet_data_js was called
  status   \* main: the exit status of the run (-1 while it runs)

chanVars == <<text, ntok, chans, cpc>>
buildVars == <<points, bi, items, built, bpc>>
emitVars == <<ecat, written, runs>>
mainVars == <<mpc, nurls, ui, fetched, all_points, wrote, status>>
vars == <<text, ntok, chans, cpc, points, bi, items, built, bpc,
          outFile, ecat, written, runs,
          mpc, nurls, ui, fetched, all_points, wrote, status>>

(***************************************************************************)
(* Characters                                                              *)
(***************************************************************************)
Digits == <<"0", "1", "2", "3", "4", "5", "6", "7", "8", "9">>
DigitSet == {Digits[i] : i \in 1..10}
UpperChars == <<"A","B","C","D","E","F","G","H","I","J","K","L","M",
                "N","O","P","Q","R","S","T","U","V","W","X","Y","Z">>
LowerChars == <<"a","b","c","d","e","f","g","h","i","j","k","l","m",
                "n","o","p","q","r","s","t","u","v","w","x","y","z">>
UpperSet == {UpperChars[i] : i \in 1..26}
LowerSet == {LowerChars[i] : i \in 1..26}
ToLower == [c \in UpperSet |-> LowerChars[CHOOSE i \in 1..26 : UpperChars[i] = c]]
ToUpper == [c \in LowerSet |-> UpperChars[CHOOSE i \in 1..26 : LowerChars[i] = c]]
DigitVal == [c \in DigitSet |-> (CHOOSE i \in 1..10 : Digits[i] = c) - 1]

IsDigit(c) == c \in DigitSet
IsSpace(c) == c \in {" ", "\n"}
\* \w of the re module (ASCII part)
IsWordChar(c) == c \in DigitSet \cup UpperSet \cup LowerSet \cup {"_"}

LowerChar(c) == IF c \in UpperSet THEN ToLower[c] ELSE c
UpperChar(c) == IF c \in LowerSet THEN ToUpper[c] ELSE c
\* str.lower() / str.upper()
Lower(s) == [i \in 1..Len(s) |-> LowerChar(s[i])]
Upper(s) == [i \in 1..Len(s) |-> UpperChar(s[i])]

\* the element of a one-element set: Only({F(x) : x \in {e}}) is F(e) with e
\* evaluated once, where F uses its argument many times
Only(S) == CHOOSE x \in S : TRUE
\* whether s has t at position i
HasAt(s, i, t) == /\ i >= 1
                  /\ i + Len(t) - 1 <= Len(s)
                  /\ \A k \in 1..Len(t) : s[i + k - 1] = t[k]
\* \b before position i (between s[i-1] and s[i])
WB(s, i) ==
  LET l == (i - 1 >= 1 /\ i - 1 <= Len(s)) /\ IsWordChar(s[i - 1])
      r == (i >= 1 /\ i <= Len(s)) /\ IsWordChar(s[i])
  IN l # r
\* length of the maximal run of digits / whitespace starting at i
DigitRun(s, i) ==
  IF i > Len(s) \/ ~IsDigit(s[i]) THEN 0
  ELSE CHOOSE n \in 1..(Len(s) - i + 1) :
         /\ \A k \in 0..(n - 1) : IsDigit(s[i + k])
         /\ (i + n > Len(s) \/ ~IsDigit(s[i + n]))
SpaceRun(s, i) ==
  IF i > Len(s) \/ ~IsSpace(s[i]) THEN 0
  ELSE CHOOSE n \in 1..(Len(s) - i + 1) :
         /\ \A k \in 0..(n - 1) : IsSpace(s[i + k])
         /\ (i + n > Len(s) \/ ~IsSpace(s[i + n]))

RECURSIVE StrToNat(_)
\* int() of a string of digits
StrToNat(s) ==
  IF s = <<>> THEN 0 ELSE 10 * StrToNat(SubSeq(s, 1, Len(s) - 1)) + DigitVal[s[Len(s)]]
RECURSIVE NatToStr(_)
\* str() of a non-negative integer
NatToStr(n) ==
  IF n < 10 THEN <<Digits[n + 1]>> ELSE NatToStr(n \div 10) \o <<Digits[(n % 10) + 1]>>

(***************************************************************************)
(* _strip_html                                                             *)
(***************************************************************************)
RECURSIVE RemoveTags(_, _)
\* re.sub(r"<[^>]+>", " ", html), scanning from position i
RemoveTags(s, i) ==
  IF i > Len(s) THEN <<>>
  ELSE IF /\ s[i] = "<"
          /\ i + 1 <= Len(s)
          /\ s[i + 1] # ">"
          /\ \E j \in (i + 2)..Len(s) : s[j] = ">"
       THEN LET j == CHOOSE j \in (i + 2)..Len(s) :
                       s[j] = ">" /\ \A k \in (i + 2)..(j - 1) : s[k] # ">"
            IN <<" ">> \o Only({RemoveTags(s, k) : k \in {j + 1}})
       ELSE <<s[i]>> \o RemoveTags(s, i + 1)

RECURSIVE CollapseSpace(_, _)
\* re.sub(r"\s+", " ", s), scanning from position i
CollapseSpace(s, i) ==
  IF i > Len(s) THEN <<>>
  ELSE IF IsSpace(s[i])
       THEN <<" ">> \o Only({CollapseSpace(s, k) : k \in {i + SpaceRun(s, i)}})
       ELSE <<s[i]>> \o CollapseSpace(s, i + 1)

\* str.strip() of a string whose whitespace runs are already single or not
Strip(s) ==
  IF \A i \in 1..Len(s) : IsSpace(s[i]) THEN <<>>
  ELSE LET a == CHOOSE i \in 1..Len(s) : ~IsSpace(s[i]) /\ \A k \in 1..(i - 1) : IsSpace(s[k])
           b == CHOOSE i \in 1..Len(s) : ~IsSpace(s[i]) /\ \A k \in (i + 1)..Len(s) : IsSpace(s[k])
       IN SubSeq(s, a, b)

StripHtml(html) ==
  IF html = <<>> THEN <<>>
  ELSE Only({Strip(c) : c \in {CollapseSpace(t, 1) : t \in {RemoveTags(html, 1)}}})

(***************************************************************************)
(* _to_mhz_str / _fmt_mhz                                                  *)
(* A frequency is [ip, fn]: integer MHz and the fraction in 10^-9 MHz, so  *)
(* that a kHz value with six decimals divides by 1000 exactly.             *)
(***************************************************************************)
BandLowNano == 500000000
BandHighMHz == 500
KhzPerMhz == 1000

Pow10(n) == CASE n = 0 -> 1 [] n = 1 -> 10 [] n = 2 -> 100 [] n = 3 -> 1000
              [] n = 4 -> 10000 [] n = 5 -> 100000 [] OTHER -> 1000000

IsSep(c) == c \in {".", ","}

\* float() of <digits>[<sep><digits>] after replace(",", "."): integer part
\* and the fraction in 10^-6
ParseNum(s) ==
  IF \E i \in 1..Len(s) : IsSep(s[i])
  THEN LET i == CHOOSE i \in 1..Len(s) : IsSep(s[i])
           d == SubSeq(s, i + 1, Len(s))
       IN [ip |-> StrToNat(SubSeq(s, 1, i - 1)),
           f6 |-> StrToNat(d) * Pow10(6 - Len(d))]
  ELSE [ip |-> StrToNat(s), f6 |-> 0]

\* v, or v / 1000.0 when the unit is khz
ToMhz(n, unit) ==
  IF unit = <<"k", "h", "z">>
  THEN [ip |-> n.ip \div KhzPerMhz, fn |-> (n.ip % KhzPerMhz) * 1000000 + n.f6]
  ELSE [ip |-> n.ip, fn |-> n.f6 * 1000]

\* the test without its upper bound
InBand_NoUpper(v) == v.ip >= 1 \/ v.fn >= BandLowNano
\* 0.5 <= v <= 500.0
InBand(v) ==
  /\ (v.ip >= 1 \/ v.fn >= BandLowNano)
  /\ (v.ip < BandHighMHz \/ (v.ip = BandHighMHz /\ v.fn = 0))

RECURSIVE RStrip(_, _)
\* str.rstrip(c)
RStrip(s, c) ==
  IF s # <<>> /\ s[Len(s)] = c THEN RStrip(SubSeq(s, 1, Len(s) - 1), c) ELSE s

RECURSIVE PadLeft(_, _)
PadLeft(s, n) == IF Len(s) >= n THEN s ELSE PadLeft(<<"0">> \o s, n)

\* f"{v:.6f}".rstrip("0").rstrip("."): the seventh decimal rounds to nearest.
\* An exact decimal half (it takes a kHz token with four or more decimals) is
\* rounded by Python as the double's binary expansion falls; here it goes to
\* even, and the token sets below form no in-band value of that shape.
FmtMhz(v) ==
  LET q == v.fn \div 1000
      r == v.fn % 1000
      m0 == IF r > 500 \/ (r = 500 /\ q % 2 = 1) THEN q + 1 ELSE q
      ip == IF m0 = 1000000 THEN v.ip + 1 ELSE v.ip
      m == IF m0 = 1000000 THEN 0 ELSE m0
      s == NatToStr(ip) \o <<".">> \o PadLeft(NatToStr(m), 6)
  IN RStrip(RStrip(s, "0"), ".")

\* None is <<>>
ToMhzStr(raw_num, unit) ==
  IF raw_num = <<>> THEN <<>>
  ELSE LET v == ToMhz(ParseNum(raw_num), unit)
       IN IF ~InBand(v) THEN <<>> ELSE FmtMhz(v)

(***************************************************************************)
(* _extract_channels                                                       *)
(***************************************************************************)
\* length of the separator r"\bport\b|\s-\s|\|" matching at i, 0 when none
SepLen(s, i) ==
  IF HasAt(s, i, <<"p", "o", "r", "t">>) /\ WB(s, i) /\ WB(s, i + 4) THEN 4
  ELSE IF i + 2 <= Len(s) /\ IsSpace(s[i]) /\ s[i + 1] = "-" /\ IsSpace(s[i + 2]) THEN 3
  ELSE IF s[i] = "|" THEN 1
  ELSE 0

RECURSIVE SplitFrom(_, _, _)
\* re.split: the chunks of s from `start`, scanning at i
SplitFrom(s, i, start) ==
  IF i > Len(s) THEN <<SubSeq(s, start, Len(s))>>
  ELSE LET n == SepLen(s, i)
       IN IF n > 0
          THEN <<SubSeq(s, start, i - 1)>> \o Only({SplitFrom(s, k, k) : k \in {i + n}})
          ELSE SplitFrom(s, i + 1, start)

Chunks(s) == SplitFrom(s, 1, 1)

BaudUnits == {<<"b", "a", "u", "d">>, <<"b", "d">>, <<"b", "p", "s">>, <<"b", "/", "s">>}

\* r"\b(\d{2,5})\s*(?:baud|bd|bps|b/s)\b" matches at i
BaudAt(ch, i) ==
  LET n == DigitRun(ch, i)
      j == i + n + SpaceRun(ch, i + n)
  IN /\ WB(ch, i)
     /\ n >= 2 /\ n <= 5
     /\ \E u \in BaudUnits : HasAt(ch, j, u) /\ WB(ch, j + Len(u))

\* r"\b(\d{1,2})k(\d)\b" matches at i
KiloBaudAt(ch, i) ==
  LET n == DigitRun(ch, i)
  IN /\ WB(ch, i)
     /\ n >= 1 /\ n <= 2
     /\ i + n + 1 <= Len(ch)
     /\ ch[i + n] = "k"
     /\ IsDigit(ch[i + n + 1])
     /\ WB(ch, i + n + 2)

\* _baud_in
BaudIn(ch) ==
  IF \E i \in 1..Len(ch) : BaudAt(ch, i)
  THEN LET i == CHOOSE i \in 1..Len(ch) : BaudAt(ch, i) /\ \A k \in 1..(i - 1) : ~BaudAt(ch, k)
       IN SubSeq(ch, i, i + DigitRun(ch, i) - 1)
  ELSE IF \E i \in 1..Len(ch) : KiloBaudAt(ch, i)
  THEN LET i == CHOOSE i \in 1..Len(ch) :
                  KiloBaudAt(ch, i) /\ \A k \in 1..(i - 1) : ~KiloBaudAt(ch, k)
           n == DigitRun(ch, i)
       IN NatToStr(StrToNat(SubSeq(ch, i, i + n - 1)) * 1000 + DigitVal[ch[i + n + 1]] * 100)
  ELSE <<>>

FreqUnits == {<<"m", "h", "z">>, <<"k", "h", "z">>}

\* r"\b(\d{1,5}[\.,]\d{1,6})\s*(mhz|khz)\b" at i: [n: end of the number,
\* u: start of the unit], or n = 0 when it does not match
UnitAt(ch, i) ==
  LET n == DigitRun(ch, i)
      f == DigitRun(ch, i + n + 1)
      e == i + n + 1 + f
      j == e + SpaceRun(ch, e)
  IN IF /\ WB(ch, i)
        /\ n >= 1 /\ n <= 5
        /\ i + n <= Len(ch) /\ IsSep(ch[i + n])
        /\ f >= 1 /\ f <= 6
        /\ \E u \in FreqUnits : HasAt(ch, j, u)
        /\ WB(ch, j + 3)
     THEN [n |-> e - 1, u |-> j]
     ELSE [n |-> 0, u |-> 0]

\* r"\b(\d{1,3}[\.,]\d{1,6})\b" at i: the end of the match, 0 when none
BareAt(ch, i) ==
  LET n == DigitRun(ch, i)
      f == DigitRun(ch, i + n + 1)
      e == i + n + 1 + f
  IN IF /\ WB(ch, i)
        /\ n >= 1 /\ n <= 3
        /\ i + n <= Len(ch) /\ IsSep(ch[i + n])
        /\ f >= 1 /\ f <= 6
        /\ WB(ch, e)
     THEN e - 1
     ELSE 0

RECURSIVE UnitChannels(_, _, _)
\* the finditer loop over unit-bearing matches, from position i
UnitChannels(ch, i, baud) ==
  IF i > Len(ch) THEN <<>>
  ELSE LET m == UnitAt(ch, i)
       IN IF m.n = 0 THEN UnitChannels(ch, i + 1, baud)
          ELSE LET mhz == ToMhzStr(SubSeq(ch, i, m.n), SubSeq(ch, m.u, m.u + 2))
                   rest == Only({UnitChannels(ch, k, baud) : k \in {m.u + 3}})
               IN IF mhz = <<>> THEN rest
                  ELSE <<[freq |-> mhz, baud |-> baud, raw |-> SubSeq(ch, i, m.u + 2)]>> \o rest

\* the test looking at the character before the match only
NotVersionPart_BeforeOnly(ch, i, e) == ~(i - 1 >= 1 /\ ch[i - 1] = ".")
\* the characters before and after a match are not decimal points
NotVersionPart(ch, i, e) ==
  LET before == IF i - 1 >= 1 THEN <<ch[i - 1]>> ELSE <<>>
      after == IF e + 1 <= Len(ch) THEN <<ch[e + 1]>> ELSE <<>>
  IN ~(before = <<".">> \/ after = <<".">>)

RECURSIVE BareChannels(_, _, _)
\* the finditer loop over bare numbers, from position i
BareChannels(ch, i, baud) ==
  IF i > Len(ch) THEN <<>>
  ELSE LET e == BareAt(ch, i)
       IN IF e = 0 THEN BareChannels(ch, i + 1, baud)
          ELSE LET mhz == ToMhzStr(SubSeq(ch, i, e), <<>>)
                   rest == Only({BareChannels(ch, k, baud) : k \in {e + 1}})
               IN IF ~NotVersionPart(ch, i, e) \/ mhz = <<>> THEN rest
                  ELSE <<[freq |-> mhz, baud |-> baud, raw |-> SubSeq(ch, i, e)]>> \o rest

Keywords ==
  {<<"a","f","s","k">>, <<"f","s","k">>, <<"b","p","s","k">>, <<"q","p","s","k">>,
   <<"i","l","2","p">>, <<"f","x","2","5">>, <<"a","x","2","5">>, <<"a","p","r","s">>,
   <<"v","a","r","a">>, <<"a","r","d","o","p">>, <<"f","m">>, <<"u","s","b">>,
   <<"l","s","b">>, <<"v","h","f">>, <<"u","h","f">>, <<"h","f">>}

\* re.search(r"\b(?:afsk|...|hf)\b", ch)
HasRfContext(ch) ==
  \E i \in 1..Len(ch) : \E k \in Keywords :
    HasAt(ch, i, k) /\ WB(ch, i) /\ WB(ch, i + Len(k))

\* the body of the loop over chunks
ChunkChannels(ch) ==
  Only({UnitChannels(ch, 1, baud)
          \o (IF HasRfContext(ch) THEN BareChannels(ch, 1, baud) ELSE <<>>) :
        baud \in {BaudIn(ch)}})

RECURSIVE AllChannels(_)
AllChannels(chunks) ==
  IF chunks = <<>> THEN <<>>
  ELSE Only({ChunkChannels(ch) : ch \in {Head(chunks)}})
         \o Only({AllChannels(rest) : rest \in {Tail(chunks)}})

RECURSIVE UniqChannels(_, _)
\* de-dupe on (freq, baud), keeping the first
UniqChannels(cs, seen) ==
  IF cs = <<>> THEN <<>>
  ELSE LET key == <<Head(cs).freq, Head(cs).baud>>
       IN IF key \in seen THEN UniqChannels(Tail(cs), seen)
          ELSE <<Head(cs)>> \o UniqChannels(Tail(cs), seen \cup {key})

ExtractChannels(display_text) ==
  LET Split(s_l) == Only({AllChannels(chunks) : chunks \in {Chunks(s_l)}})
      All(raw) == Only({Split(s_l) : s_l \in {Lower(s) : s \in {StripHtml(raw)}}})
  IN Only({UniqChannels(channels, {}) : channels \in {All(raw) : raw \in {display_text}}})


(***************************************************************************)
(* JSON values as _build_items meets them.  A scalar is [t, n, s]: t is    *)
(* "none" (absent or null), "int" (n the integer), "float" (n in 10^-6),   *)
(* "str" (s the characters) or "list" (a non-empty list: true, and neither *)
(* a number, a string nor a mapping).  A mapping is a record of the keys   *)
(* the code reads, each a scalar, with kind "dict"; kind "falsy" is a      *)
(* value `or {}` replaces (null, {}, "", 0, []); kind "other" is any true  *)
(* value that is no mapping (a string, a list, a number).                  *)
(***************************************************************************)
JNone == [t |-> "none", n |-> 0, s |-> <<>>]
JInt(n) == [t |-> "int", n |-> n, s |-> <<>>]
JFloat(m) == [t |-> "float", n |-> m, s |-> <<>>]
JStr(s) == [t |-> "str", n |-> 0, s |-> s]
JList == [t |-> "list", n |-> 0, s |-> <<>>]

\* bool(v)
Truthy(v) ==
  CASE v.t = "none" -> FALSE
    [] v.t \in {"int", "float"} -> v.n # 0
    [] v.t = "str" -> v.s # <<>>
    [] OTHER -> TRUE
\* a or b
Or(a, b) == IF Truthy(a) THEN a ELSE b

\* the result of float(): [ok, m] with m in 10^-6
NoFloat == [ok |-> FALSE, m |-> 0]
\* float() of a string: [sign] digits [. digits], as far as six decimals
\* (the strings of the model have no exponent, inf, nan or underscore)
ParseFloat(str) ==
  LET s0 == Strip(str)
      neg == s0 # <<>> /\ s0[1] = "-"
      s == IF s0 # <<>> /\ s0[1] \in {"-", "+"} THEN Tail(s0) ELSE s0
      n == DigitRun(s, 1)
      f == DigitRun(s, n + 2)
      wellFormed ==
        /\ n >= 1
        /\ \/ Len(s) = n
           \/ (s[n + 1] = "." /\ Len(s) = n + 1 + f /\ f <= 6)
      num == ParseNum(s)
      m == num.ip * 1000000 + num.f6
  IN IF wellFormed THEN [ok |-> TRUE, m |-> IF neg THEN -m ELSE m] ELSE NoFloat

\* _as_float: None is NoFloat (a NaN cannot come out of JSON text)
AsFloat(v) ==
  CASE v.t = "int" -> [ok |-> TRUE, m |-> v.n * 1000000]
    [] v.t = "float" -> [ok |-> TRUE, m |-> v.n]
    [] v.t = "str" -> ParseFloat(v.s)
    [] OTHER -> NoFloat

\* repr() of a float given in 10^-6 (0, or 0.0001 <= |v| < 10^16)
FloatStr(m) ==
  LET a == IF m < 0 THEN -m ELSE m
      frac == RStrip(PadLeft(NatToStr(a % 1000000), 6), "0")
  IN (IF m < 0 THEN <<"-">> ELSE <<>>) \o NatToStr(a \div 1000000) \o <<".">>
       \o (IF frac = <<>> THEN <<"0">> ELSE frac)

\* str() of a number
NumStr(v) ==
  IF v.t = "int"
  THEN (IF v.n < 0 THEN <<"-">> \o NatToStr(-v.n) ELSE NatToStr(v.n))
  ELSE FloatStr(v.n)

RECURSIVE Pick(_)
\* _pick(props, *keys), vals being props.get(k) for each key in turn
Pick(vals) ==
  IF vals = <<>> THEN <<>>
  ELSE LET v == Head(vals)
       IN IF v.t \in {"int", "float"} THEN NumStr(v)
          ELSE IF v.t = "str" /\ Strip(v.s) # <<>> THEN Strip(v.s)
          ELSE Pick(Tail(vals))

Contains(s, t) == \E i \in 1..Len(s) : HasAt(s, i, t)

\* _guess_type
GuessType(display_text) ==
  LET s == Lower(display_text)
  IN IF Contains(s, <<"b", "b", "s">>) \/ Contains(s, <<"m", "a", "i", "l", "b", "o", "x">>)
     THEN "bbs" ELSE "node"

\* _parse_freq_baud: the primary channel and the channel list
FirstOf(S) == CHOOSE i \in S : \A j \in S : i <= j
\* the choice of the primary channel among `channels`
PrimaryOf(channels) ==
  LET both == {i \in 1..Len(channels) : channels[i].freq # <<>> /\ channels[i].baud # <<>>}
      any == {i \in 1..Len(channels) : channels[i].freq # <<>>}
      primary == IF both # {} THEN FirstOf(both) ELSE IF any # {} THEN FirstOf(any) ELSE 0
  IN [freq |-> IF primary = 0 THEN <<>> ELSE channels[primary].freq,
      baud |-> IF primary = 0 THEN <<>> ELSE channels[primary].baud,
      channels |-> channels]
ParseFreqBaud(display_text) ==
  Only({PrimaryOf(channels) : channels \in {ExtractChannels(display_text)}})

(***************************************************************************)
(* _build_items                                                            *)
(***************************************************************************)
MinRun == 3

IsAlnumUpper(c) == c \in UpperSet \cup DigitSet
\* the pattern with {2,} for {3,}
PlausibleCallsign_Run2(callsign) ==
  LET u == Upper(callsign)
  IN \E i \in 1..(Len(u) - 1) : IsAlnumUpper(u[i]) /\ IsAlnumUpper(u[i + 1])
\* re.search(r"[A-Z0-9]{3,}", callsign.upper())
PlausibleCallsign(callsign) ==
  LET u == Upper(callsign)
  IN \E i \in 1..(Len(u) - MinRun + 1) : \A k \in 0..(MinRun - 1) : IsAlnumUpper(u[i + k])

EmptyProps == [kind |-> "dict", title |-> JNone, lat |-> JNone, latitude |-> JNone,
               lng |-> JNone, lon |-> JNone, longitude |-> JNone]
EmptyFeature == [kind |-> "dict", node |-> JNone, callsign |-> JNone,
                 displayText |-> JNone, display |-> JNone]

\* x or {}
OrEmptyProps(x) == IF x.kind = "falsy" THEN EmptyProps ELSE x
OrEmptyFeature(x) == IF x.kind = "falsy" THEN EmptyFeature ELSE x

NoItem == [id |-> 0, type |-> "", callsign |-> <<>>, name |-> <<>>, location |-> <<>>,
           country |-> <<>>, lat |-> 0, lng |-> 0, freq |-> <<>>, baud |-> <<>>,
           channels |-> <<>>, mode |-> "", status |-> "", notes |-> <<>>]

\* a point and its parts
Props(title, lat, latitude, lng, lon, longitude) ==
  [kind |-> "dict", title |-> title, lat |-> lat, latitude |-> latitude,
   lng |-> lng, lon |-> lon, longitude |-> longitude]
Titled(title) == Props(title, JNone, JNone, JNone, JNone, JNone)
Feat(node, callsign, displayText, display) ==
  [kind |-> "dict", node |-> node, callsign |-> callsign,
   displayText |-> displayText, display |-> display]
Described(displayText) == Feat(JNone, JNone, displayText, JNone)
\* a true value that is no mapping, as properties / as feature
OtherProps == [EmptyProps EXCEPT !.kind = "other"]
OtherFeature == [EmptyFeature EXCEPT !.kind = "other"]
\* the key is missing (or null, or otherwise false)
NoFeature == [EmptyFeature EXCEPT !.kind = "falsy"]
Pt(lat, lng, properties, feature) ==
  [lat |-> lat, lng |-> lng, properties |-> properties, feature |-> feature]

\* p.get("lat") or props.get("lat") or props.get("latitude"): `raise` when
\* props.get is reached on a value that is no mapping
LatExpr(p, props) ==
  IF Truthy(p.lat) THEN [raise |-> FALSE, v |-> p.lat]
  ELSE IF props.kind # "dict" THEN [raise |-> TRUE, v |-> JNone]
  ELSE [raise |-> FALSE, v |-> Or(props.lat, props.latitude)]

\* p.get("lng") or props.get("lng") or props.get("lon") or props.get("longitude")
LngExpr(p, props) ==
  IF Truthy(p.lng) THEN [raise |-> FALSE, v |-> p.lng]
  ELSE IF props.kind # "dict" THEN [raise |-> TRUE, v |-> JNone]
  ELSE [raise |-> FALSE, v |-> Or(props.lng, Or(props.lon, props.longitude))]

\* _pick(props, "title") or _pick(feature, "node", "callsign")
CallsignExpr(props, feature) ==
  IF props.kind # "dict" THEN [raise |-> TRUE, s |-> <<>>]
  ELSE LET t == Pick(<<props.title>>)
       IN IF t # <<>> THEN [raise |-> FALSE, s |-> t]
          ELSE IF feature.kind # "dict" THEN [raise |-> TRUE, s |-> <<>>]
          ELSE [raise |-> FALSE, s |-> Pick(<<feature.node, feature.callsign>>)]

\* feature.get("displayText") or feature.get("display") or ""
DisplayExpr(feature) ==
  IF feature.kind # "dict" THEN [raise |-> TRUE, v |-> JNone]
  ELSE [raise |-> FALSE, v |-> Or(feature.displayText, Or(feature.display, JStr(<<>>)))]

\* the body of the loop over the points: out is "raise" (an exception leaves
\* _build_items), "skip" (continue) or "item" (items.append)
\* the item of a point that passed every test
MakeItem(next_id, callsign, lat, lng, display_text, fb) ==
  [id |-> next_id,
   type |-> GuessType(display_text),
   callsign |-> callsign,
   name |-> callsign,  \* title or callsign.strip(), title being callsign.strip()
   location |-> <<>>,
   country |-> <<>>,
   lat |-> lat,
   lng |-> lng,
   freq |-> fb.freq,
   baud |-> fb.baud,
   channels |-> fb.channels,
   mode |-> "AX.25",
   status |-> IF Contains(Lower(display_text), <<"a", "g", "e", ":">>)
              THEN "online" ELSE "unknown",
   notes |-> StripHtml(display_text)]

PointStep(p, next_id) ==
  LET props == OrEmptyProps(p.properties)
      feature == OrEmptyFeature(p.feature)
      latx == LatExpr(p, props)
      lngx == LngExpr(p, props)
      lat == AsFloat(latx.v)
      lng == AsFloat(lngx.v)
      cs == CallsignExpr(props, feature)
      dx == DisplayExpr(feature)
  IN IF latx.raise \/ lngx.raise THEN [out |-> "raise", item |-> NoItem]
     ELSE IF ~lat.ok \/ ~lng.ok THEN [out |-> "skip", item |-> NoItem]
     ELSE IF cs.raise THEN [out |-> "raise", item |-> NoItem]
     ELSE IF ~PlausibleCallsign(cs.s) THEN [out |-> "skip", item |-> NoItem]
     ELSE IF dx.raise THEN [out |-> "raise", item |-> NoItem]
     \* _guess_type: (display_text or "").lower() on a true value that is no string
     ELSE IF Truthy(dx.v) /\ dx.v.t # "str" THEN [out |-> "raise", item |-> NoItem]
     ELSE [out |-> "item",
           item |-> Only({MakeItem(next_id, callsign, lat.m, lng.m, display_text,
                                   ParseFreqBaud(display_text)) :
                          callsign \in {Strip(cs.s)}, display_text \in {dx.v.s}})]

\* round(x, 5) of a value in 10^-6, in 10^-5: to nearest (a last digit of 5
\* is rounded by Python as the double's binary expansion falls; here to even)
Round5(m) ==
  LET a == IF m < 0 THEN -m ELSE m
      q == a \div 10
      r == a % 10
      u == IF r > 5 \/ (r = 5 /\ q % 2 = 1) THEN q + 1 ELSE q
  IN IF m < 0 THEN -u ELSE u

\* the key without .upper()
ItemKey_NoUpper(it) == <<it.callsign, Round5(it.lat), Round5(it.lng), it.type>>
\* the de-dupe key of an item
ItemKey(it) == <<Upper(it.callsign), Round5(it.lat), Round5(it.lng), it.type>>

RECURSIVE UniqItems(_, _)
\* the second loop of _build_items: the first item of each key, in order
UniqItems(its, seen) ==
  IF its = <<>> THEN <<>>
  ELSE LET key == ItemKey(Head(its))
       IN IF key \in seen THEN UniqItems(Tail(its), seen)
          ELSE <<Head(its)>> \o UniqItems(Tail(its), seen \cup {key})

RECURSIVE BuildLoop(_, _, _)
\* the first loop of _build_items from point i on: [raised, items]
BuildLoop(pts, i, acc) ==
  IF i > Len(pts) THEN [raised |-> FALSE, items |-> acc]
  ELSE LET Continue(r) ==
             IF r.out = "raise" THEN [raised |-> TRUE, items |-> <<>>]
             ELSE IF r.out = "skip" THEN BuildLoop(pts, i + 1, acc)
             ELSE Only({BuildLoop(pts, i + 1, acc2) : acc2 \in {Append(acc, r.item)}})
       IN Only({Continue(r) : r \in {PointStep(pts[i], Len(acc) + 1)}})

\* _build_items as one call: [raised, items]
BuildItems(pts) ==
  LET Return(r) ==
        IF r.raised THEN r ELSE [raised |-> FALSE, items |-> UniqItems(r.items, {})]
  IN Only({Return(r) : r \in {BuildLoop(p, 1, <<>>) : p \in {pts}}})

(***************************************************************************)
(* _js_escape and _write_packet_data_js.  The text of the output file is a *)
(* sequence of pieces: a piece is one character, or a fixed text of the    *)
(* program (a key, a header line, a marker) taken whole; the characters of *)
(* the model cannot spell such a text.                                     *)
(***************************************************************************)
NL == "\n"
Backslash == "\\"
\* the backtick (written out: the character cannot stand in a string here)
Backtick == "BACKTICK"

RECURSIVE EscapeBackslash(_, _)
\* s.replace("\\", "\\\\"), from position i
EscapeBackslash(s, i) ==
  IF i > Len(s) THEN <<>>
  ELSE (IF s[i] = Backslash THEN <<Backslash, Backslash>> ELSE <<s[i]>>)
         \o EscapeBackslash(s, i + 1)

RECURSIVE EscapeBacktick(_, _)
\* s.replace(backtick, backslash + backtick), from position i
EscapeBacktick(s, i) ==
  IF i > Len(s) THEN <<>>
  ELSE (IF s[i] = Backtick THEN <<Backslash, Backtick>> ELSE <<s[i]>>)
         \o EscapeBacktick(s, i + 1)

RECURSIVE EscapeDollarBrace(_, _)
\* s.replace("${", "\\${"), from position i
EscapeDollarBrace(s, i) ==
  IF i > Len(s) THEN <<>>
  ELSE IF HasAt(s, i, <<"$", "{">>)
       THEN <<Backslash, "$", "{">> \o EscapeDollarBrace(s, i + 2)
       ELSE <<s[i]>> \o EscapeDollarBrace(s, i + 1)

\* _js_escape: the three replacements, in the order of the code
JsEscape(s) ==
  Only({EscapeDollarBrace(c, 1) :
          c \in {Only({EscapeBacktick(b, 1) : b \in {EscapeBackslash(s, 1)}})}})

\* '{_js_escape(s)}' inside an f-string
Quoted(s) == <<"'">> \o JsEscape(s) \o <<"'">>
\* f"    key: '{_js_escape(s)}'" and what ends the line
StrLine(key, s, end) == <<key>> \o Quoted(s) \o end

\* the line of one channel
ChannelLine(ch) ==
  <<"      { freq: ">> \o Quoted(ch.freq) \o <<", baud: ">> \o Quoted(ch.baud)
    \o <<", raw: ">> \o Quoted(ch.raw) \o <<" },">>

\* the lines of the channels of an item
ChannelLines(channels) ==
  IF channels # <<>>
  THEN <<<<"    channels: [">>>>
         \o [i \in 1..Len(channels) |-> ChannelLine(channels[i])]
         \o <<<<"    ],">>>>
  ELSE <<<<"    channels: [],">>>>

\* the lines of one item
ItemLines(it) ==
  << <<"  {">>,
     <<"    id: ">> \o NatToStr(it.id) \o <<",">>,
     StrLine("    type: ", <<it.type>>, <<",">>),
     StrLine("    callsign: ", it.callsign, <<",">>),
     StrLine("    name: ", it.name, <<",">>),
     StrLine("    location: ", it.location, <<",">>),
     StrLine("    country: ", it.country, <<",">>),
     <<"    lat: ">> \o FloatStr(it.lat) \o <<",">>,
     <<"    lng: ">> \o FloatStr(it.lng) \o <<",">>,
     StrLine("    freq: ", it.freq, <<",">>),
     StrLine("    baud: ", it.baud, <<",">>) >>
  \o ChannelLines(it.channels)
  \o << StrLine("    mode: ", <<it.mode>>, <<",">>),
        StrLine("    status: ", <<it.status>>, <<",">>),
        StrLine("    notes: ", it.notes, <<>>),
        <<"  },">> >>

RECURSIVE AllItemLines(_, _)
\* the lines of the items from item i on
AllItemLines(its, i) ==
  IF i > Len(its) THEN <<>> ELSE ItemLines(its[i]) \o AllItemLines(its, i + 1)

SOURCE_URL == "https://nodes.ukpacketradio.network/packet-network-map.html?rfonly=0"

\* the lines before the items; now is time.strftime("%Y-%m-%d")
HeadLines(now) ==
  << <<"// Packet Radio dataset (nodes + BBS) and helpers">>,
     <<"// Source: ", SOURCE_URL>>,
     <<"// Snapshot date: ", now>>,
     <<"// NOTE: This file is generated by scripts/fetch-ukpacket-nodes.py">>,
     <<>>,
     <<"// Type values: 'node' | 'bbs'">>,
     <<"const packetNodeData = [">> >>

\* "];\n" as a line
ListEnd == <<"];", NL>>

\* the two literal parts of the pattern that finds the curated table; .*?
\* between them takes any text, line ends included (re.S)
CuratedStart == <<"const packetCommonFrequencies = [">>
CuratedEnd == <<"];", NL, NL, "function normalizePacketItem(">>

\* m.start() of re.search, 0 when there is no match: the leftmost start
\* marker that has an end marker somewhere after it
MatchStart(existing) ==
  LET ends == {j \in 1..Len(existing) : HasAt(existing, j, CuratedEnd)}
      starts == {i \in 1..Len(existing) :
                   /\ HasAt(existing, i, CuratedStart)
                   /\ \E j \in ends : j >= i + Len(CuratedStart)}
  IN IF starts = {} THEN 0 ELSE FirstOf(starts)

\* the fallback table and helpers
DefaultTailLines ==
  << <<"// Common packet-related frequencies (starter set; always verify local bandplan)">>,
     <<"const packetCommonFrequencies = [">>,
     <<"  { band: '2m', usage: 'Packet (general / node)', freq: '145.010', notes: 'Very common in many regions; confirm your local plan.' },">>,
     <<"  { band: '2m', usage: 'Packet (alternate)', freq: '145.030', notes: 'Alternate packet frequency in some areas.' },">>,
     <<"  { band: '2m', usage: 'BBS / mailbox (example)', freq: '145.050', notes: 'Often region-specific; confirm locally.' },">>,
     <<"  { band: '2m', usage: 'APRS', freq: '144.390', notes: 'North America APRS. (144.800 in much of the rest of the world.)' },">>,
     <<"  { band: '70cm', usage: 'Packet (general / node)', freq: '445.925', notes: 'Common 70cm packet channel in some plans.' },">>,
     <<"  { band: 'HF', usage: 'Winlink (example)', freq: 'varies', notes: 'Winlink uses multiple HF/VHF channels; see local channel lists.' }">>,
     <<"];", NL>>,
     <<"function normalizePacketItem(", "raw) { return raw; }">>,
     <<"function validatePacketItem(item) { return { ok: true }; }">>,
     <<"function getPacketNodesInRadius(centerLat, centerLng, radiusKm, nodes = packetNodeData) { return nodes; }">> >>

RECURSIVE JoinRange(_, _, _)
\* "\n".join(lines[a..b]), by halves
JoinRange(lines, a, b) ==
  IF a > b THEN <<>>
  ELSE IF a = b THEN lines[a]
  ELSE JoinRange(lines, a, (a + b) \div 2) \o <<NL>> \o JoinRange(lines, (a + b) \div 2 + 1, b)
\* "\n".join(lines), from line i on
JoinLines(lines, i) == JoinRange(lines, i, Len(lines))

\* the lines up to and including the end of the item list
ListLines(its, now) == HeadLines(now) \o AllItemLines(its, 1) \o <<ListEnd>>

\* the lines after the item list: the text of `existing` from the match on,
\* as one line, or the fallback
TailLines(existing) ==
  LET Tail_(m) == IF m # 0 THEN <<SubSeq(existing, m, Len(existing))>>
                  ELSE DefaultTailLines
  IN Only({Tail_(m) : m \in {MatchStart(existing)}})

\* _write_packet_data_js: the text it writes, `existing` being the text of
\* the file before the call (empty when there is no file)
WritePacketDataJs(its, now, existing) ==
  Only({JoinLines(lines, 1) : lines \in {ListLines(its, now) \o TailLines(existing)}})

(***************************************************************************)
(* _extract_points_from_geojson.  A decoded payload is [isdict, type,      *)
(* features, data]; features is [kind, elems] with kind "list", "falsy"    *)
(* (missing, null, []) or "other" (a true value that cannot be iterated,   *)
(* a number); data is [islist, rows].  A feature is a record of the keys   *)
(* the code reads, kind "dict" or "other" (no mapping); its geometry is    *)
(* [kind, type, coordinates] with kind "dict", "falsy" or "other".         *)
(***************************************************************************)
Geometry(type, coordinates) ==
  [kind |-> "dict", type |-> type, coordinates |-> [islist |-> TRUE, vals |-> coordinates]]
NoGeometry == [Geometry(JNone, <<>>) EXCEPT !.kind = "falsy"]
OtherGeometry == [Geometry(JNone, <<>>) EXCEPT !.kind = "other"]
RawFeature(geometry, properties, displayText) ==
  [kind |-> "dict", geometry |-> geometry, properties |-> properties,
   node |-> JNone, callsign |-> JNone, displayText |-> displayText, display |-> JNone]

\* the keys of a feature that _build_items reads
FeatureView(f) ==
  [kind |-> "dict", node |-> f.node, callsign |-> f.callsign,
   displayText |-> f.displayText, display |-> f.display]

\* the body of the loop over the features: out is "raise", "skip" or "point"
FeatureStep(f) ==
  LET geom == IF f.geometry.kind = "falsy" THEN Geometry(JNone, <<>>) ELSE f.geometry
      coords == geom.coordinates
      none == Pt(JNone, JNone, EmptyProps, NoFeature)
  IN IF f.kind # "dict" THEN [out |-> "skip", point |-> none]
     \* geom.get on a value that is no mapping
     ELSE IF geom.kind # "dict" THEN [out |-> "raise", point |-> none]
     \* (geom.get("type") or "").lower() on a true value that is no string
     ELSE IF Truthy(geom.type) /\ geom.type.t # "str" THEN [out |-> "raise", point |-> none]
     ELSE IF ~Truthy(geom.type) \/ Lower(geom.type.s) # <<"p", "o", "i", "n", "t">>
          THEN [out |-> "skip", point |-> none]
     ELSE IF ~(coords.islist /\ Len(coords.vals) >= 2) THEN [out |-> "skip", point |-> none]
     ELSE [out |-> "point",
           point |-> Pt(coords.vals[2], coords.vals[1], OrEmptyProps(f.properties),
                        FeatureView(f))]

RECURSIVE FeaturePoints(_, _, _)
\* the loop over the features from feature i on: [raised, points]
FeaturePoints(elems, i, acc) ==
  IF i > Len(elems) THEN [raised |-> FALSE, points |-> acc]
  ELSE LET Continue(r) ==
             IF r.out = "raise" THEN [raised |-> TRUE, points |-> <<>>]
             ELSE IF r.out = "skip" THEN FeaturePoints(elems, i + 1, acc)
             ELSE Only({FeaturePoints(elems, i + 1, acc2) : acc2 \in {Append(acc, r.point)}})
       IN Only({Continue(r) : r \in {FeatureStep(elems[i])}})

\* the loop over the rows of "data": a row that is a mapping is the
\* properties of a point with nothing else
RowPoints(rows) ==
  LET dicts == {i \in 1..Len(rows) : rows[i].kind = "dict"}
      Kth(j) == CHOOSE x \in dicts : Cardinality({y \in dicts : y < x}) = j - 1
  IN [j \in 1..Cardinality(dicts) |-> Pt(JNone, JNone, rows[Kth(j)], NoFeature)]

\* list(_extract_points_from_geojson(obj)): [raised, points]
ExtractPoints(obj) ==
  LET WithRows(r) ==
        IF r.raised \/ ~obj.data.islist THEN r
        ELSE [raised |-> FALSE, points |-> r.points \o RowPoints(obj.data.rows)]
      fromFeatures ==
        IF obj.type # "FeatureCollection" \/ obj.features.kind = "falsy"
        THEN [raised |-> FALSE, points |-> <<>>]
        \* for f in <a number>
        ELSE IF obj.features.kind = "other" THEN [raised |-> TRUE, points |-> <<>>]
        ELSE FeaturePoints(obj.features.elems, 1, <<>>)
  IN IF ~obj.isdict THEN [raised |-> FALSE, points |-> <<>>]
     ELSE Only({WithRows(r) : r \in {fromFeatures}})

(***************************************************************************)
(* main                                                                    *)
(***************************************************************************)
MinPoints == 10
MinItems == 10

\* the tests of main with the thresholds changed
EnoughPoints_One(pts) == Len(pts) >= 1
EnoughItems_Any(its) == TRUE
\* not (len(pts) < 10)
EnoughPoints(pts) == Len(pts) >= MinPoints
\* not (len(items) < 10)
EnoughItems(its) == Len(its) >= MinItems

(***************************************************************************)
(* Specification of the Channel Extractor: a description text is put       *)
(* together from tokens, then _extract_channels is applied to it.          *)
(***************************************************************************)
MaxToks == 4

\* numbers below, inside and above the band; both separators; both units;
\* a radio-context keyword; a chunk separator; a markup tag (which
\* _strip_html turns into a space)
ChanTokens ==
  {<<"0">>, <<"0", ".", "5">>, <<"1", ".", "5">>, <<"5", "0", "0">>, <<".">>, <<",">>,
   <<"M", "H", "z">>, <<"k", "h", "z">>, <<" ", "F", "M", " ">>, <<"|">>,
   <<"<", "b", ">">>}

ChanIdle ==
  /\ text = <<>>
  /\ ntok = 0
  /\ chans = <<>>
  /\ cpc = "input"

BuildIdle ==
  /\ points = <<>>
  /\ bi = 1
  /\ items = <<>>
  /\ built = <<>>
  /\ bpc = "input"

EmitIdle ==
  /\ ecat = <<>>
  /\ written = <<>>
  /\ runs = 0

MainIdle ==
  /\ mpc = "start"
  /\ nurls = 0
  /\ ui = 1
  /\ fetched = <<>>
  /\ all_points = <<>>
  /\ wrote = FALSE
  /\ status = -1

ChanInit == ChanIdle /\ BuildIdle /\ EmitIdle /\ MainIdle /\ outFile = <<>>

AddToken ==
  /\ cpc = "input"
  /\ ntok < MaxToks
  /\ \E t \in ChanTokens : text' = text \o t
  /\ ntok' = ntok + 1
  /\ UNCHANGED <<chans, cpc>>
  /\ UNCHANGED <<buildVars, outFile, emitVars, mainVars>>

Extract ==
  /\ cpc = "input"
  /\ chans' = ExtractChannels(text)
  /\ cpc' = "done"
  /\ UNCHANGED <<text, ntok>>
  /\ UNCHANGED <<buildVars, outFile, emitVars, mainVars>>

ChanNext == AddToken \/ Extract

SpecChan == ChanInit /\ [][ChanNext]_vars


(***************************************************************************)
(* Properties of the Channel Extractor                                     *)
(***************************************************************************)
\* the value of an emitted frequency string lies in [0.5, 500.0]
FreqStringInBand(f) ==
  LET n == ParseNum(f)
  IN /\ f # <<>>
     /\ (n.ip >= 1 \/ n.f6 >= 500000)
     /\ (n.ip < 500 \/ (n.ip = 500 /\ n.f6 = 0))

EndsWith(s, t) == Len(s) >= Len(t) /\ HasAt(s, Len(s) - Len(t) + 1, t)
\* a record of a unit-bearing match keeps the unit in raw; a bare one does not
IsUnitRecord(c) == \E u \in FreqUnits : EndsWith(c.raw, u)
IsBareRecord(c) == ~IsUnitRecord(c)

\* C1: every channel record _extract_channels returns has a non-empty
\* frequency string whose value lies in [0.5, 500.0] MHz, whether it came
\* from a MHz token, a kHz token (divided by 1000) or a bare decimal.
C1_FreqInBand ==
  cpc = "done" => \A i \in 1..Len(chans) : FreqStringInBand(chans[i].freq)

\* a kHz token on the lower edge (500.0 kHz) and nothing else was emitted
C1_Witness ==
  /\ cpc = "done"
  /\ Len(chans) = 1
  /\ chans[1].freq = <<"0", ".", "5">>
  /\ EndsWith(chans[1].raw, <<"k", "h", "z">>)
  /\ \E i \in 1..Len(text) : HasAt(text, i, <<"5", "0", "0", ".", "0">>)

IsRunChar(c) == IsDigit(c) \/ c = "."
\* s[a..b] is a maximal run of digits and decimal points
IsMaxRun(s, a, b) ==
  /\ a <= b
  /\ \A k \in a..b : IsRunChar(s[k])
  /\ (a = 1 \/ ~IsRunChar(s[a - 1]))
  /\ (b = Len(s) \/ ~IsRunChar(s[b + 1]))
DotsIn(s, a, b) == Cardinality({k \in a..b : s[k] = "."})
\* every dotted number of s has three or more components, and no comma
\* stands in for a decimal point
OnlyVersionNumbers(s) ==
  /\ \A k \in 1..Len(s) : s[k] # ","
  /\ \A a \in 1..Len(s) : \A b \in a..Len(s) :
       IsMaxRun(s, a, b) => DotsIn(s, a, b) # 1
HasVersionNumber(s) ==
  \E a \in 1..Len(s) : \E b \in a..Len(s) :
    /\ IsMaxRun(s, a, b) /\ DotsIn(s, a, b) >= 2
    /\ \E k \in a..(b - 2) : IsDigit(s[k]) /\ s[k + 1] = "." /\ IsDigit(s[k + 2])
HasUnit(s) == \E i \in 1..Len(s) : \E u \in FreqUnits : HasAt(s, i, u)
\* raw occurs in s with no decimal point right before or right after it
OccursUndotted(s, raw) ==
  \E i \in 1..Len(s) :
    /\ HasAt(s, i, raw)
    /\ (i = 1 \/ s[i - 1] # ".")
    /\ (i + Len(raw) > Len(s) \/ s[i + Len(raw)] # ".")

\* C5: a bare decimal with a decimal point right before or after it gives no
\* record, keyword or not: every bare record's number occurs in the text
\* with no adjacent decimal point, and a text whose dotted numbers all have
\* three or more components gives no bare record (none at all without a
\* unit).
C5_VersionRejected ==
  cpc = "done" =>
    LET s == Lower(StripHtml(text))
    IN /\ \A i \in 1..Len(chans) :
            IsBareRecord(chans[i]) => OccursUndotted(s, chans[i].raw)
       /\ OnlyVersionNumbers(s) =>
            /\ \A i \in 1..Len(chans) : IsUnitRecord(chans[i])
            /\ (~HasUnit(s) => chans = <<>>)

\* a version number and a radio-context keyword in one chunk, and no record
C5_Witness ==
  /\ cpc = "done"
  /\ LET s == Lower(StripHtml(text))
     IN /\ OnlyVersionNumbers(s) /\ HasVersionNumber(s)
        /\ HasRfContext(s) /\ ~HasUnit(s)
        /\ \A k \in 1..Len(s) : s[k] # "|"
  /\ chans = <<>>

\* a number followed by mhz or khz starts at c[i]: 1-5 digits, a point or a
\* comma, 1-6 digits, any whitespace, the unit, with a word boundary at
\* both ends
UnitBearingAt(c, i) ==
  \E a \in 1..5 : \E b \in 1..6 : \E w \in 0..Len(c) : \E u \in {"m", "k"} :
    LET e == i + a + 1 + b + w
    IN /\ e + 2 <= Len(c)
       /\ WB(c, i)
       /\ \A k \in i..(i + a - 1) : IsDigit(c[k])
       /\ c[i + a] \in {".", ","}
       /\ \A k \in (i + a + 1)..(i + a + b) : IsDigit(c[k])
       /\ \A k \in (i + a + b + 1)..(e - 1) : IsSpace(c[k])
       /\ c[e] = u /\ c[e + 1] = "h" /\ c[e + 2] = "z"
       /\ WB(c, e + 3)
\* the chunk has a unit-bearing frequency match
HasUnitMatch(c) == \E i \in 1..Len(c) : UnitBearingAt(c, i)

\* C11: bare decimal numbers are searched only in a chunk that has no
\* unit-bearing frequency match and has a radio-context keyword: every
\* record made from a bare number has its number in such a chunk, so a
\* chunk with a unit-bearing match gives no bare record, keyword or not.
C11_BareOnlyWithoutUnit ==
  cpc = "done" =>
    \E chunks \in {Chunks(Lower(StripHtml(text)))} :
      \A i \in 1..Len(chans) :
        IsBareRecord(chans[i]) =>
          \E k \in 1..Len(chunks) :
            /\ Contains(chunks[k], chans[i].raw)
            /\ HasRfContext(chunks[k])
            /\ ~HasUnitMatch(chunks[k])

(***************************************************************************)
(* Specification of the Item Builder: a sequence of points is put          *)
(* together, then _build_items runs over it, one point per step.           *)
(***************************************************************************)
MaxPts == 3

Call_GB7abc == <<"G", "B", "7", "a", "b", "c">>
Call_gb7ABC == <<"g", "b", "7", "A", "B", "C">>
Call_MB7uvw == <<"M", "B", "7", "-", "u", "v", "w">>
Call_42 == <<"4", "2">>
Text_Port == <<"1", "4", "4", ".", "9", "5", "M", "H", "z", " ", "1", "2", "0", "0", " ", "b", "a", "u", "d">>
Text_Bbs == <<"B", "B", "S", " ", "<", "b", ">", "m", "a", "i", "l", "b", "o", "x", "<", "/", "b", ">", " ", "a", "g", "e", ":", " ", "5">>
Text_abc == <<"a", "b", "c">>
Text_blank == <<" ", " ">>

\* the points of the model: one good point and its neighbours in each
\* direction the builder looks at (coordinates, callsign, description,
\* shape of properties and feature)
PointSet ==
  { \* a good point, and the same station again in another case
    \* and within the fifth decimal
    Pt(JFloat(51500001), JFloat(-250000), Titled(JStr(Call_GB7abc)), Described(JStr(Text_Port))),
    Pt(JFloat(51500004), JFloat(-250000), Titled(JStr(Call_gb7ABC)), Described(JStr(Text_Port))),
    \* the same callsign one step further in the fifth decimal, and as a bbs
    Pt(JFloat(51500016), JFloat(-250000), Titled(JStr(Call_GB7abc)), Described(JStr(Text_Port))),
    Pt(JFloat(51500001), JFloat(-250000), Titled(JStr(Call_GB7abc)), Described(JStr(Text_Bbs))),
    \* on the equator
    Pt(JInt(0), JInt(10), Titled(JStr(Call_GB7abc)), Described(JStr(Text_Port))),
    \* a row of a flat list: coordinates among the properties only
    Pt(JNone, JNone,
       Props(JStr(Call_MB7uvw), JNone, JFloat(52000000), JNone, JInt(1), JNone), NoFeature),
    \* own latitude not numeric, a numeric one among the properties
    Pt(JStr(Text_abc), JInt(10),
       Props(JStr(Call_GB7abc), JFloat(5000000), JNone, JNone, JNone, JNone), NoFeature),
    \* no coordinates at all
    Pt(JNone, JNone, Titled(JStr(Call_GB7abc)), Described(JStr(Text_Port))),
    \* callsign candidates: too short; blank title, so the feature's node;
    \* a title that is a list
    Pt(JInt(-33), JInt(10), Titled(JStr(Call_42)), Feat(JStr(Call_GB7abc), JNone, JNone, JNone)),
    Pt(JInt(-33), JInt(10), Titled(JStr(Text_blank)), Feat(JStr(Call_MB7uvw), JNone, JNone, JStr(Text_Bbs))),
    Pt(JInt(-33), JInt(10), Titled(JList), Feat(JNone, JStr(Call_gb7ABC), JNone, JNone)),
    \* malformed: properties no mapping; feature no mapping; description
    \* a number
    Pt(JInt(-33), JInt(10), OtherProps, Described(JStr(Text_Port))),
    Pt(JInt(-33), JInt(10), Titled(JNone), OtherFeature),
    Pt(JInt(-33), JInt(10), Titled(JStr(Call_GB7abc)), Described(JInt(5))) }

BuildInit == ChanIdle /\ BuildIdle /\ EmitIdle /\ MainIdle /\ outFile = <<>>

AddPoint ==
  /\ bpc = "input"
  /\ Len(points) < MaxPts
  /\ \E p \in PointSet : points' = Append(points, p)
  /\ UNCHANGED <<bi, items, built, bpc>>
  /\ UNCHANGED <<chanVars, outFile, emitVars, mainVars>>

\* _build_items is called: items = [], next_id = 1
BuildStart ==
  /\ bpc = "input"
  /\ bpc' = "loop"
  /\ bi' = 1
  /\ items' = <<>>
  /\ UNCHANGED <<points, built>>
  /\ UNCHANGED <<chanVars, outFile, emitVars, mainVars>>

\* one pass of the first loop; next_id is len(items) + 1 throughout
BuildPoint ==
  /\ bpc = "loop"
  /\ bi <= Len(points)
  /\ \E r \in {PointStep(points[bi], Len(items) + 1)} :
        \/ /\ r.out = "raise"
           /\ bpc' = "raised"
           /\ UNCHANGED <<bi, items>>
        \/ /\ r.out = "skip"
           /\ bi' = bi + 1
           /\ UNCHANGED <<items, bpc>>
        \/ /\ r.out = "item"
           /\ items' = Append(items, r.item)
           /\ bi' = bi + 1
           /\ UNCHANGED bpc
  /\ UNCHANGED <<points, built>>
  /\ UNCHANGED <<chanVars, outFile, emitVars, mainVars>>

\* the de-dupe loop and the return
BuildReturn ==
  /\ bpc = "loop"
  /\ bi > Len(points)
  /\ built' = UniqItems(items, {})
  /\ bpc' = "done"
  /\ UNCHANGED <<points, bi, items>>
  /\ UNCHANGED <<chanVars, outFile, emitVars, mainVars>>

BuildNext == AddPoint \/ BuildStart \/ BuildPoint \/ BuildReturn

SpecBuild == BuildInit /\ [][BuildNext]_vars

(***************************************************************************)
(* Properties of the Item Builder                                          *)
(***************************************************************************)
\* the catalog-wide identity of an item
CatalogKey(it) == <<Upper(it.callsign), Round5(it.lat), Round5(it.lng), it.type>>

\* C6: the list _build_items returns has no two items of one key (callsign
\* upper-cased, lat and lng rounded to 5 decimals, kind); of the candidates
\* sharing a key exactly the first is kept, and the kept items are in their
\* processing order (a candidate's id is its place in that order).
C6_UniqueKeys ==
  bpc = "done" =>
    LET firsts == {i \in 1..Len(items) :
                     \A j \in 1..(i - 1) : CatalogKey(items[j]) # CatalogKey(items[i])}
    IN /\ \A i \in 1..Len(items) : items[i].id = i
       /\ \A i \in 1..Len(built) : \A j \in 1..Len(built) :
            i < j => /\ CatalogKey(built[i]) # CatalogKey(built[j])
                     /\ built[i].id < built[j].id
       /\ {built[i].id : i \in 1..Len(built)} = firsts
       /\ \A i \in 1..Len(built) : built[i] = items[built[i].id]

\* three candidates, the second a duplicate of the first in another case and
\* within the fifth decimal: the first and the third are returned
C6_Witness ==
  /\ bpc = "done"
  /\ Len(items) = 3
  /\ items[1].callsign # items[2].callsign
  /\ items[1].lat # items[2].lat
  /\ CatalogKey(items[1]) = CatalogKey(items[2])
  /\ Len(built) = 2
  /\ built[2].id = 3

\* C7: _build_items never raises on a malformed point (properties or
\* feature no mapping, description or title no string): it terminates
\* normally, having skipped only that point.
C7_NeverRaises == bpc # "raised"

IsAlnum(c) == c \in UpperSet \cup LowerSet \cup DigitSet
\* a run of at least 3 consecutive alphanumeric characters
HasAlnumRun(s) ==
  \E i \in 1..(Len(s) - 2) : IsAlnum(s[i]) /\ IsAlnum(s[i + 1]) /\ IsAlnum(s[i + 2])
\* the title property, else the feature's node / callsign field
CallsignCandidate(p) ==
  LET title == IF p.properties.kind = "dict" THEN Pick(<<p.properties.title>>) ELSE <<>>
  IN IF title # <<>> THEN title
     ELSE IF p.feature.kind = "dict" THEN Pick(<<p.feature.node, p.feature.callsign>>)
     ELSE <<>>

C8_Step ==
  /\ (bpc = "loop" /\ bi <= Len(points) /\ ~HasAlnumRun(CallsignCandidate(points[bi])))
       => items' = items
  /\ \A i \in 1..Len(items') : HasAlnumRun(items'[i].callsign)
  /\ \A i \in 1..Len(built') : HasAlnumRun(built'[i].callsign)

\* C8: every item of the builder's output has a callsign with a run of at
\* least 3 consecutive alphanumeric characters, and the pass over a point
\* whose callsign candidate (the title, else the feature's node/callsign)
\* has no such run adds no item.
C8_CallsignAdmission == [][C8_Step]_vars

\* a point with coordinates and the candidate "42" was passed over, and
\* another point of the same call was admitted
C8_Witness ==
  /\ bpc = "done"
  /\ Len(built) >= 1
  /\ \E k \in 1..Len(points) :
       /\ CallsignCandidate(points[k]) = <<"4", "2">>
       /\ AsFloat(points[k].lat).ok /\ AsFloat(points[k].lng).ok
  /\ Len(items) < Len(points)

\* float() takes the value
IsNumeric(v) == AsFloat(v).ok
HasLatitude(p) ==
  \/ IsNumeric(p.lat)
  \/ p.properties.kind = "dict"
       /\ (IsNumeric(p.properties.lat) \/ IsNumeric(p.properties.latitude))
HasLongitude(p) ==
  \/ IsNumeric(p.lng)
  \/ p.properties.kind = "dict"
       /\ (IsNumeric(p.properties.lng) \/ IsNumeric(p.properties.lon)
             \/ IsNumeric(p.properties.longitude))

C10_Step ==
  (bpc = "loop" /\ bi <= Len(points) /\ bpc' = "loop") =>
    LET p == points[bi]
        added == items' # items
    IN /\ (IsNumeric(p.lat) /\ IsNumeric(p.lng) /\ added) =>
            /\ items'[Len(items')].lat = AsFloat(p.lat).m
            /\ items'[Len(items')].lng = AsFloat(p.lng).m
       /\ (HasLatitude(p) /\ HasLongitude(p) /\ HasAlnumRun(CallsignCandidate(p))) => added
       /\ ~(HasLatitude(p) /\ HasLongitude(p)) => ~added

\* C10: a point whose own lat and lng are numeric (negative, zero or
\* positive) gives an item with those coordinates; the property fields are
\* consulted only when the own coordinate is absent or not numeric; a point
\* is dropped for its coordinates exactly when neither source gives a
\* numeric latitude and longitude.
C10_OwnCoordinates == [][C10_Step]_vars

(***************************************************************************)
(* Specification of the Catalog Emitter: a catalog is put together from    *)
(* items the builder returns, _write_packet_data_js writes it over the     *)
(* previous output file, and so on for the next regeneration.              *)
(***************************************************************************)
MaxItems == 2
MaxRuns == 2

Dates == {"2024-05-01", "2024-05-02"}

Call_Quote == <<"G", "B", "7", "'", "a", "b", "c">>
Call_Slash == <<"G", "B", "7", "x", "y", "z", Backslash>>
Call_GB7def == <<"G", "B", "7", "d", "e", "f">>
Call_GB7ghi == <<"G", "B", "7", "g", "h", "i">>
Call_GB7jkl == <<"G", "B", "7", "j", "k", "l">>
Text_Template == <<Backtick, "$", "{", "a", "}", Backslash, "n">>
Text_Quote == <<"B", "o", "b", "'", "s">>
Text_Marker == <<"s", "e", "e", " ", "const packetCommonFrequencies = [">>

\* points whose items carry each character of interest in a callsign or in
\* the notes, and the text of the start marker in the notes
EmitPoints ==
  { Pt(JFloat(51500001), JFloat(-250000), Titled(JStr(Call_GB7abc)), Described(JStr(Text_Port))),
    Pt(JInt(-33), JInt(10), Titled(JStr(Call_MB7uvw)), Described(JStr(Text_Bbs))),
    Pt(JInt(52), JInt(1), Titled(JStr(Call_Quote)), Described(JNone)),
    Pt(JInt(52), JInt(1), Titled(JStr(Call_Slash)), Described(JNone)),
    Pt(JInt(52), JInt(1), Titled(JStr(Call_GB7def)), Described(JStr(Text_Template))),
    Pt(JInt(52), JInt(1), Titled(JStr(Call_GB7ghi)), Described(JStr(Text_Quote))),
    Pt(JInt(52), JInt(1), Titled(JStr(Call_GB7jkl)), Described(JStr(Text_Marker))) }

\* the item _build_items makes of each
EmitItemSet == {BuildItems(<<p>>).items[1] : p \in EmitPoints}

\* a table edited by hand, with helpers of its own
CuratedTable ==
  <<"const packetCommonFrequencies = [", NL,
    "  { band: '2m', usage: 'Local packet', freq: '144.950', notes: 'Kept by hand.' }", NL,
    "];", NL, NL,
    "function normalizePacketItem(", "raw) { return { ...raw }; }", NL,
    "function validatePacketItem(item) { return { ok: !!item.callsign }; }", NL>>

\* the files a run may find: none; one without the table; an earlier output
\* whose table was edited by hand; one whose table lost its end marker
OldFormatFile == <<"// placeholder dataset", NL, "const packetNodeData = [", NL, "];", NL>>
CuratedFile ==
  JoinLines(ListLines(<<[NoItem EXCEPT !.id = 1, !.type = "node", !.callsign = Call_GB7abc,
                                       !.name = Call_GB7abc, !.mode = "AX.25",
                                       !.status = "unknown"]>>, "2024-04-30")
              \o <<CuratedTable>>, 1)
StartOnlyFile ==
  <<"const packetNodeData = [", NL, "];", NL, NL,
    "const packetCommonFrequencies = [", NL, "];", NL, NL,
    "function normalizeItem(", "raw) { return raw; }", NL>>
PreviousFiles == {<<>>, OldFormatFile, CuratedFile, StartOnlyFile}

EmitInit ==
  /\ ChanIdle /\ BuildIdle /\ EmitIdle /\ MainIdle
  /\ outFile \in PreviousFiles

\* the builder returned one more item (its keys are distinct)
AddItem ==
  /\ runs < MaxRuns
  /\ Len(ecat) < MaxItems
  /\ \E it \in EmitItemSet :
       /\ \A i \in 1..Len(ecat) : ItemKey(ecat[i]) # ItemKey(it)
       /\ ecat' = Append(ecat, [it EXCEPT !.id = Len(ecat) + 1])
  /\ UNCHANGED <<outFile, written, runs>>
  /\ UNCHANGED <<chanVars, buildVars, mainVars>>

\* _write_packet_data_js(ecat)
Regenerate ==
  /\ runs < MaxRuns
  /\ ecat # <<>>
  /\ \E now \in Dates : outFile' = WritePacketDataJs(ecat, now, outFile)
  /\ written' = ecat
  /\ ecat' = <<>>
  /\ runs' = runs + 1
  /\ UNCHANGED <<chanVars, buildVars, mainVars>>

EmitNext == AddItem \/ Regenerate

SpecEmit == EmitInit /\ [][EmitNext]_vars

(***************************************************************************)
(* Properties of the Catalog Emitter                                       *)
(***************************************************************************)
\* where the item list of a file ends: its first "];" when the file has the
\* opening of the list, 0 otherwise
ItemListEnd(file) ==
  LET opens == {i \in 1..Len(file) : file[i] = "const packetNodeData = ["}
      closes == {i \in 1..Len(file) : file[i] = "];" /\ \E o \in opens : o < i}
  IN IF closes = {} THEN 0 ELSE FirstOf(closes)

\* where the curated section of a file starts: the first start marker after
\* the item list that has the end marker after it; 0 when the file has none
CuratedAt(file) ==
  LET e == ItemListEnd(file)
      S == {i \in (e + 1)..Len(file) :
              /\ file[i] = "const packetCommonFrequencies = ["
              /\ \E j \in (i + 1)..Len(file) :
                   HasAt(file, j, <<"];", NL, NL, "function normalizePacketItem(">>)}
  IN IF S = {} THEN 0 ELSE FirstOf(S)

\* the curated section: from its start marker to the end of the file
CuratedOf(file) ==
  LET From(a) == IF a = 0 THEN <<>> ELSE SubSeq(file, a, Len(file))
  IN Only({From(a) : a \in {CuratedAt(file)}})

\* the default section, from its start marker on
DefaultSection == Only({CuratedOf(f) : f \in {JoinLines(DefaultTailLines, 1)}})

C3_Step ==
  runs' = runs + 1 =>
    LET Holds(old, new) ==
          \E now \in Dates :
            LET list == JoinLines(ListLines(ecat, now), 1) \o <<NL>>
            IN IF CuratedAt(outFile) # 0
               THEN /\ new = list \o old
                    /\ CuratedOf(new) = old
               ELSE /\ new = list \o JoinLines(DefaultTailLines, 1)
                    /\ CuratedOf(new) = DefaultSection
    IN \E old \in {CuratedOf(outFile)} : \E new \in {outFile'} : Holds(old, new)

\* C3: a regeneration writes the new item list followed by the curated
\* section of the previous output (start marker through end of file),
\* unchanged and with nothing of the previous item list; when the previous
\* output has no such section it writes the default one, which the next
\* regeneration then keeps as it keeps any other.
C3_CuratedPreserved == [][C3_Step]_vars

RECURSIVE LiteralEnd(_, _)
\* the quote that closes a single-quoted literal whose content starts at
\* l[i]: the first quote not taken by a backslash (0: none)
LiteralEnd(l, i) ==
  IF i > Len(l) THEN 0
  ELSE IF l[i] = "'" THEN i
  ELSE IF l[i] = Backslash THEN LiteralEnd(l, i + 2)
  ELSE LiteralEnd(l, i + 1)

RECURSIVE Unescape(_, _, _)
\* the value of the literal content l[i..e-1]: a backslash and the
\* character after it stand for that character
Unescape(l, i, e) ==
  IF i >= e THEN <<>>
  ELSE IF l[i] = Backslash THEN <<l[i + 1]>> \o Unescape(l, i + 2, e)
  ELSE <<l[i]>> \o Unescape(l, i + 1, e)

NoLiteral == [ok |-> FALSE, v |-> <<>>, next |-> 0]
\* the literal that starts at l[i]: its value and the position after it
ReadLiteral(l, i) ==
  IF i <= Len(l) /\ l[i] = "'"
  THEN LET R(e) == IF e = 0 THEN NoLiteral
                   ELSE [ok |-> TRUE, v |-> Unescape(l, i + 1, e), next |-> e + 1]
       IN Only({R(e) : e \in {LiteralEnd(l, i + 1)}})
  ELSE NoLiteral

\* a line  key 'literal' end
ReadStrLine(l, key, end) ==
  IF l # <<>> /\ l[1] = key
  THEN LET R(r) == IF r.ok /\ SubSeq(l, r.next, Len(l)) = end
                   THEN [ok |-> TRUE, v |-> r.v] ELSE [ok |-> FALSE, v |-> <<>>]
       IN Only({R(r) : r \in {ReadLiteral(l, 2)}})
  ELSE [ok |-> FALSE, v |-> <<>>]

\* a line  key number ,
ReadNumLine(l, key) ==
  IF Len(l) >= 3 /\ l[1] = key /\ l[Len(l)] = ","
  THEN ParseFloat(SubSeq(l, 2, Len(l) - 1))
  ELSE NoFloat

NoChannel == [ok |-> FALSE, v |-> [freq |-> <<>>, baud |-> <<>>, raw |-> <<>>]]
\* a line  { freq: '..', baud: '..', raw: '..' },
ReadChannelLine(l) ==
  IF l # <<>> /\ l[1] = "      { freq: "
  THEN LET R3(f, b, r) ==
             IF r.ok /\ SubSeq(l, r.next, Len(l)) = <<" },">>
             THEN [ok |-> TRUE, v |-> [freq |-> f.v, baud |-> b.v, raw |-> r.v]]
             ELSE NoChannel
           R2(f, b) ==
             IF b.ok /\ b.next <= Len(l) /\ l[b.next] = ", raw: "
             THEN Only({R3(f, b, r) : r \in {ReadLiteral(l, b.next + 1)}})
             ELSE NoChannel
           R1(f) ==
             IF f.ok /\ f.next <= Len(l) /\ l[f.next] = ", baud: "
             THEN Only({R2(f, b) : b \in {ReadLiteral(l, f.next + 1)}})
             ELSE NoChannel
       IN Only({R1(f) : f \in {ReadLiteral(l, 2)}})
  ELSE NoChannel

\* the lines of a text
LinesOf(s) ==
  LET nls == {k \in 1..Len(s) : s[k] = NL}
      n == Cardinality(nls)
      Kth(j) == IF j = 0 THEN 0
                ELSE IF j = n + 1 THEN Len(s) + 1
                ELSE CHOOSE x \in nls : Cardinality({y \in nls : y < x}) = j - 1
  IN [j \in 1..(n + 1) |-> SubSeq(s, Kth(j - 1) + 1, Kth(j) - 1)]

\* the text of the item list: between its opening line and its closing "];"
ItemSection(file) ==
  LET opens == {i \in 1..Len(file) : file[i] = "const packetNodeData = ["}
      o == FirstOf(opens)
  IN IF opens = {} \/ ItemListEnd(file) = 0 THEN <<>>
     ELSE SubSeq(file, o + 2, ItemListEnd(file) - 2)

NoTuple == [callsign |-> <<>>, type |-> <<>>, lat |-> 0, lng |-> 0, channels |-> <<>>]
\* the item whose lines start at ls[i]: [ok, tuple, next]
ReadItem(ls, i) ==
  LET bad == [ok |-> FALSE, tuple |-> NoTuple, next |-> 0]
      closes == {c \in (i + 12)..Len(ls) : ls[c] = <<"    ],">>}
      \* the line after the channels
      m == IF i + 11 > Len(ls) THEN 0
           ELSE IF ls[i + 11] = <<"    channels: [],">> THEN i + 12
           ELSE IF ls[i + 11] = <<"    channels: [">> /\ closes # {} THEN FirstOf(closes) + 1
           ELSE 0
      chs == [k \in 1..(m - i - 13) |-> ReadChannelLine(ls[i + 11 + k])]
      type == ReadStrLine(ls[i + 2], "    type: ", <<",">>)
      callsign == ReadStrLine(ls[i + 3], "    callsign: ", <<",">>)
      lat == ReadNumLine(ls[i + 7], "    lat: ")
      lng == ReadNumLine(ls[i + 8], "    lng: ")
  IN IF m = 0 \/ m + 3 > Len(ls) THEN bad
     ELSE IF /\ ls[i] = <<"  {">>
             /\ ReadNumLine(ls[i + 1], "    id: ").ok
             /\ type.ok /\ callsign.ok
             /\ ReadStrLine(ls[i + 4], "    name: ", <<",">>).ok
             /\ ReadStrLine(ls[i + 5], "    location: ", <<",">>).ok
             /\ ReadStrLine(ls[i + 6], "    country: ", <<",">>).ok
             /\ lat.ok /\ lng.ok
             /\ ReadStrLine(ls[i + 9], "    freq: ", <<",">>).ok
             /\ ReadStrLine(ls[i + 10], "    baud: ", <<",">>).ok
             /\ \A k \in 1..Len(chs) : chs[k].ok
             /\ ReadStrLine(ls[m], "    mode: ", <<",">>).ok
             /\ ReadStrLine(ls[m + 1], "    status: ", <<",">>).ok
             /\ ReadStrLine(ls[m + 2], "    notes: ", <<>>).ok
             /\ ls[m + 3] = <<"  },">>
          THEN [ok |-> TRUE,
                tuple |-> [callsign |-> callsign.v, type |-> type.v, lat |-> lat.m,
                           lng |-> lng.m, channels |-> [k \in 1..Len(chs) |-> chs[k].v]],
                next |-> m + 4]
          ELSE bad

RECURSIVE ReadItems(_, _, _)
\* the items from line i on: [ok, tuples]
ReadItems(ls, i, acc) ==
  IF i > Len(ls) THEN [ok |-> TRUE, tuples |-> acc]
  ELSE LET R(r) == IF r.ok THEN ReadItems(ls, r.next, Append(acc, r.tuple))
                   ELSE [ok |-> FALSE, tuples |-> <<>>]
       IN Only({R(r) : r \in {ReadItem(ls, i)}})

\* what reading the item section of a file back gives
ReadBack(file) == Only({ReadItems(ls, 1, <<>>) : ls \in {LinesOf(ItemSection(file))}})

TupleOf(it) ==
  [callsign |-> it.callsign, type |-> <<it.type>>, lat |-> it.lat, lng |-> it.lng,
   channels |-> it.channels]

\* C4: reading the single-quoted literals of the item section back gives
\* exactly the (callsign, kind, lat, lng, channels) tuples of the catalog
\* that was written, whatever characters its strings hold.
C4_RoundTrip ==
  runs >= 1 =>
    ReadBack(outFile) = [ok |-> TRUE, tuples |-> [i \in 1..Len(written) |-> TupleOf(written[i])]]

(***************************************************************************)
(* Specification of the generation run: main probes the candidate          *)
(* endpoints, one call of _http_get_json per step, builds the catalog and  *)
(* writes it.  What an endpoint answers is chosen when it is asked.        *)
(***************************************************************************)
MaxUrls == 3

PointType == <<"P", "o", "i", "n", "t">>
LineType == <<"L", "i", "n", "e", "S", "t", "r", "i", "n", "g">>
\* the k-th station of a payload: longitude k, a plausible callsign
Station(k) ==
  RawFeature(Geometry(JStr(PointType), <<JInt(k), JFloat(51500001)>>),
             Titled(JStr(Call_GB7abc)), JNone)
Stations(n) == [k \in 1..n |-> Station(k)]
\* a station whose callsign the builder rejects
Nameless(k) == [Station(k) EXCEPT !.properties = Titled(JStr(Call_42))]
\* a station whose description is a number
NumberText(k) == [Station(k) EXCEPT !.displayText = JInt(5)]
\* a feature that is a line, one that is no mapping, one whose geometry is
\* a string
LineFeature == [Station(1) EXCEPT !.geometry = Geometry(JStr(LineType), <<JInt(1), JInt(2)>>)]
NotAFeature == [Station(1) EXCEPT !.kind = "other"]
BadGeometry == [Station(1) EXCEPT !.geometry = OtherGeometry]
\* the k-th row of a flat list
Row(k) == Props(JStr(Call_MB7uvw), JNone, JFloat(52000000), JNone, JInt(k), JNone)

FeatureCollection(elems) ==
  [isdict |-> TRUE, type |-> "FeatureCollection",
   features |-> [kind |-> "list", elems |-> elems],
   data |-> [islist |-> FALSE, rows |-> <<>>]]
\* a JSON array
ArrayPayload == [FeatureCollection(<<>>) EXCEPT !.isdict = FALSE]
\* {"features": 5, "type": "FeatureCollection"}
NumberPayload == [FeatureCollection(<<>>) EXCEPT !.features.kind = "other"]
\* {"data": [...]}
RowsPayload(rows) ==
  [FeatureCollection(<<>>) EXCEPT !.type = "", !.features.kind = "falsy",
                                  !.data = [islist |-> TRUE, rows |-> rows]]

Failure(name) == [name |-> name, kind |-> "fail", obj |-> ArrayPayload]
Answer(name, obj) == [name |-> name, kind |-> "json", obj |-> obj]

\* what an endpoint may answer: no answer or an error status; a body that is
\* no JSON; payloads on each side of both thresholds, and malformed ones
Outcomes ==
  { Failure("error"),
    Failure("not json"),
    Answer("array", ArrayPayload),
    Answer("short", FeatureCollection(Stations(MinPoints - 1))),
    Answer("padded", FeatureCollection(Stations(MinPoints - 1) \o <<LineFeature, NotAFeature>>)),
    Answer("exact", FeatureCollection(Stations(MinPoints))),
    Answer("spare", FeatureCollection(Stations(MinItems) \o <<Station(1)>>)),
    Answer("repeats", FeatureCollection(Stations(MinItems - 1) \o <<Station(1), Station(2)>>)),
    Answer("nameless", FeatureCollection(Stations(MinItems - 1) \o <<Nameless(MinItems)>>)),
    Answer("rows", RowsPayload([k \in 1..MinPoints |-> Row(k)])),
    Answer("bad geometry", FeatureCollection(Stations(MinPoints) \o <<BadGeometry>>)),
    Answer("no list", NumberPayload),
    Answer("number text", FeatureCollection(Stations(MinPoints - 1) \o <<NumberText(MinPoints)>>)) }

OutcomeOf(name) == CHOOSE o \in Outcomes : o.name = name

MainInit ==
  /\ ChanIdle /\ BuildIdle /\ EmitIdle /\ MainIdle
  /\ outFile \in {<<>>, CuratedFile}

\* html = _http_get_text(SOURCE_URL); urls = _find_data_urls_from_html(html):
\* the sorted list always holds DATA_URL, so it is never empty
FetchPage ==
  /\ mpc = "start"
  /\ \E n \in 0..MaxUrls :
       \/ \* the request fails: the exception leaves main
          /\ n = 0
          /\ mpc' = "exit"
          /\ status' = 1
          /\ UNCHANGED nurls
       \/ /\ n >= 1
          /\ nurls' = n
          /\ mpc' = "probe"
          /\ UNCHANGED status
  /\ UNCHANGED <<ui, fetched, all_points, wrote>>
  /\ UNCHANGED <<chanVars, buildVars, outFile, emitVars>>

\* one pass of the loop over urls
TryCandidate ==
  /\ mpc = "probe"
  /\ ui <= nurls
  /\ \E o \in Outcomes :
       /\ fetched' = Append(fetched, [url |-> ui, got |-> o.name])
       /\ \E r \in {IF o.kind = "json" THEN ExtractPoints(o.obj)
                    ELSE [raised |-> FALSE, points |-> <<>>]} :
            \/ \* except Exception: continue
               /\ o.kind = "fail"
               /\ ui' = ui + 1
               /\ UNCHANGED <<mpc, all_points, status>>
            \/ \* an exception of the extractor leaves main
               /\ o.kind = "json" /\ r.raised
               /\ mpc' = "exit"
               /\ status' = 1
               /\ UNCHANGED <<ui, all_points>>
            \/ \* likely not the right dataset: continue
               /\ o.kind = "json" /\ ~r.raised /\ ~EnoughPoints(r.points)
               /\ ui' = ui + 1
               /\ UNCHANGED <<mpc, all_points, status>>
            \/ \* all_points = pts; break
               /\ o.kind = "json" /\ ~r.raised /\ EnoughPoints(r.points)
               /\ all_points' = r.points
               /\ mpc' = "build"
               /\ UNCHANGED <<ui, status>>
  /\ UNCHANGED <<nurls, wrote>>
  /\ UNCHANGED <<chanVars, buildVars, outFile, emitVars>>

\* the loop ran out of candidates: if not all_points: raise SystemExit(...)
NoDataset ==
  /\ mpc = "probe"
  /\ ui > nurls
  /\ mpc' = "exit"
  /\ status' = 1
  /\ UNCHANGED <<nurls, ui, fetched, all_points, wrote>>
  /\ UNCHANGED <<chanVars, buildVars, outFile, emitVars>>

\* items = _build_items(all_points), the test on len(items), and
\* _write_packet_data_js(items); return 0
BuildAndWrite ==
  /\ mpc = "build"
  /\ mpc' = "exit"
  /\ \E r \in {BuildItems(all_points)} :
       \/ \* an exception of the builder leaves main
          /\ r.raised
          /\ status' = 1
          /\ UNCHANGED <<outFile, written, runs, wrote>>
       \/ \* raise SystemExit("Parsed too few items ...")
          /\ ~r.raised /\ ~EnoughItems(r.items)
          /\ status' = 1
          /\ UNCHANGED <<outFile, written, runs, wrote>>
       \/ /\ ~r.raised /\ EnoughItems(r.items)
          /\ \E now \in Dates : outFile' = WritePacketDataJs(r.items, now, outFile)
          /\ written' = r.items
          /\ runs' = runs + 1
          /\ wrote' = TRUE
          /\ status' = 0
  /\ UNCHANGED <<nurls, ui, fetched, all_points, ecat>>
  /\ UNCHANGED <<chanVars, buildVars>>

MainNext == FetchPage \/ TryCandidate \/ NoDataset \/ BuildAndWrite

SpecMain == MainInit /\ [][MainNext]_vars

(***************************************************************************)
(* Properties of the generation run                                        *)
(***************************************************************************)
\* a feature that counts as a point: a mapping whose geometry is of type
\* Point (in any case) with at least two coordinates
IsPointFeature(f) ==
  /\ f.kind = "dict"
  /\ f.geometry.kind = "dict"
  /\ f.geometry.type.t = "str"
  /\ Lower(f.geometry.type.s) = <<"p", "o", "i", "n", "t">>
  /\ f.geometry.coordinates.islist
  /\ Len(f.geometry.coordinates.vals) >= 2
\* the number of point features and rows a payload holds
PointCount(obj) ==
  IF ~obj.isdict THEN 0
  ELSE (IF obj.type = "FeatureCollection" /\ obj.features.kind = "list"
        THEN Cardinality({i \in 1..Len(obj.features.elems) :
                            IsPointFeature(obj.features.elems[i])})
        ELSE 0)
       + (IF obj.data.islist
          THEN Cardinality({i \in 1..Len(obj.data.rows) : obj.data.rows[i].kind = "dict"})
          ELSE 0)
\* the extractor fails on the payload
Unreadable(obj) == ExtractPoints(obj).raised

\* the answer candidate k was seen to give
Got(k) == OutcomeOf(fetched[k].got)

\* what holds of the position pc, the exit status st, the flag w of a write,
\* the catalog cat last written and the log of the answers
C2_Holds(pc, st, w, cat, log) ==
  /\ pc = "exit" <=> st \in {0, 1}
  /\ w <=> (pc = "exit" /\ st = 0)
  /\ w =>
       /\ Len(cat) >= 10
       /\ Cardinality({CatalogKey(cat[i]) : i \in 1..Len(cat)}) = Len(cat)
       /\ \E k \in 1..Len(log) : \E o \in {OutcomeOf(log[k].got)} :
            /\ o.kind = "json"
            /\ PointCount(o.obj) >= 10
            /\ \E pts \in {ExtractPoints(o.obj)} :
                 /\ ~pts.raised
                 /\ \E r \in {BuildItems(pts.points)} : ~r.raised /\ r.items = cat

C2_Step ==
  /\ \E pc \in {mpc'} : \E st \in {status'} : \E w \in {wrote'} :
       \E cat \in {written'} : \E log \in {fetched'} : C2_Holds(pc, st, w, cat, log)
  /\ ~wrote' => outFile' = outFile
  /\ wrote => outFile' = outFile

\* C2: the output file is written only when some candidate gave at least 10
\* point features and the de-duplicated catalog built from them has at
\* least 10 items; every run that ends otherwise ends with a non-zero
\* status, and no step of such a run changes the file.
C2_WriteGuard == [][C2_Step]_vars

\* a run that wrote a catalog of exactly 10 items built from 11 points, over
\* an earlier file, after a candidate that was passed over
C2_Witness ==
  /\ mpc = "exit" /\ status = 0 /\ wrote
  /\ Len(fetched) >= 2
  /\ Len(all_points) = 11 /\ Len(written) = 10
  /\ CuratedOf(outFile) = CuratedTable

\* candidate k is passed over: the request or the decoding failed, or the
\* payload holds fewer than 10 points
PassedOver(o) ==
  \/ o.kind = "fail"
  \/ o.kind = "json" /\ ~Unreadable(o.obj) /\ PointCount(o.obj) < 10

C9_Inv ==
  /\ Len(fetched) <= nurls
  /\ \A k \in 1..Len(fetched) : fetched[k].url = k
  /\ all_points # <<>> =>
       LET n == Len(fetched)
       IN /\ n >= 1
          /\ Got(n).kind = "json"
          /\ PointCount(Got(n).obj) >= 10
          /\ all_points = ExtractPoints(Got(n).obj).points
          /\ \A k \in 1..(n - 1) : PassedOver(Got(k))

C9_Step ==
  /\ C9_Inv'
  /\ fetched' # fetched =>
       /\ mpc = "probe" /\ all_points = <<>>
       /\ Len(fetched') = Len(fetched) + 1
       /\ SubSeq(fetched', 1, Len(fetched)) = fetched
       /\ PassedOver(OutcomeOf(fetched'[Len(fetched')].got)) =>
            /\ mpc' = "probe" /\ status' = -1 /\ all_points' = <<>>
            /\ ui' = ui + 1
  /\ (mpc = "probe" /\ mpc' = "exit" /\ fetched' = fetched) => Len(fetched) = nurls

=============================================================================
